---- MODULE Spec2Model ----
(***************************************************************************)
(* LuxStyle booking (src/app.py): a Flask application over five tables     *)
(* (users, clients, services, barbers, appointments) and a cookie session. *)
(* Every route handler that writes the database or the session is one      *)
(* operator computing, from the current state and the request, the tables  *)
(* or session the handler leaves and the message it flashes, and one       *)
(* action applying it.  A request that ends in an error page flashes       *)
(* nothing: its message is the status code.  Read-only pages (GET forms    *)
(* and listings) change nothing and are not actions.                       *)
(*                                                                         *)
(* Time is counted in whole slots: a submitted date/time pair parses to a  *)
(* slot number, and datetime.now() is the slot number of the clock.        *)
(***************************************************************************)
EXTENDS Integers, Sequences, FiniteSets, TLC

VARIABLES users, clients, services, barbers, appointments,
          session, now, inflight

vars == <<users, clients, services, barbers, appointments,
          session, now, inflight>>

db == <<users, clients, services, barbers, appointments>>

\* ------------------------------------------------------------------ bounds
\* The clock runs from slot 0 to slot MaxNow.
MaxNow == 2
\* The appointments table holds at most MaxAppointments rows.
MaxAppointments == 2

\* Browser sessions (cookies): the requests of several browsers are the
\* requests of one that logs in as each user in turn.
Sessions == {1}
\* The requests the server handles at the same time.
Workers == {1, 2}

\* ------------------------------------------------------------- constants
MinUsernameLen == 3
MinPasswordLen == 6
SeedServices == 3
SeedBarbers == 3

\* session.get(key) of a key that is not set
None == "None"
\* session.get("user_id") of a session without one (ids start at 1)
NoUser == 0

\* ----------------------------------------------------------------- text
\* str.strip(): leading and trailing blanks removed.
RECURSIVE strip(_)
strip(s) ==
    IF s = <<>> THEN s
    ELSE IF Head(s) = " " THEN strip(Tail(s))
    ELSE IF s[Len(s)] = " " THEN strip(SubSeq(s, 1, Len(s) - 1))
    ELSE s

\* werkzeug's generate_password_hash / check_password_hash: the stored value
\* is a digest of the password, never the password, and a password checks
\* against exactly the digests made from it.
generate_password_hash(password) == [digest |-> password]

check_password_hash(pwhash, password) == pwhash = [digest |-> password]

\* ------------------------------------------------------------- database
\* A new row's primary key: one more than the largest key of the table.
NextId(table) ==
    IF table = {} THEN 1
    ELSE (CHOOSE r \in table : \A q \in table : q.id <= r.id).id + 1

\* A query that finds no row
NoRow == [id |-> 0]

\* Query.first() of the rows matching a filter: the row of lowest key, or
\* None when no row matches.
first(rows) ==
    IF rows = {} THEN NoRow
    ELSE CHOOSE r \in rows : \A q \in rows : r.id <= q.id

\* Query.get(id)
get(table, id) == first({r \in table : r.id = id})

User(id, username, password, role) ==
    [id |-> id, username |-> username, password |-> password, role |-> role]

Client(id, user_id, full_name, phone, email) ==
    [id |-> id, user_id |-> user_id, full_name |-> full_name,
     phone |-> phone, email |-> email]

Service(id, name, description, duration_minutes, price, is_active) ==
    [id |-> id, name |-> name, description |-> description,
     duration_minutes |-> duration_minutes, price |-> price,
     is_active |-> is_active]

Barber(id, name, specialty, is_active) ==
    [id |-> id, name |-> name, specialty |-> specialty, is_active |-> is_active]

Appointment(id, appointment_datetime, status, notes, client_id, service_id, barber_id) ==
    [id |-> id, appointment_datetime |-> appointment_datetime,
     status |-> status, notes |-> notes, client_id |-> client_id,
     service_id |-> service_id, barber_id |-> barber_id]

\* ---------------------------------------------------------------- inputs
bob == <<"b", "o", "b">>
admin == <<"a", "d", "m", "i", "n">>
secret == <<"s", "e", "c", "r", "e", "t">>
adminPassword == <<"1", "2", "3", "4">>

AuthForm(username, password) == [username |-> username, password |-> password]

\* The credentials submitted to /register and /login: well-formed ones, with
\* and without blanks around them, and one of each way of being malformed,
\* taken or wrong.
AuthForms ==
    {AuthForm(<<" ">>, secret),
     AuthForm(bob, <<>>),
     AuthForm(<<"a", "b">>, secret),
     AuthForm(bob, adminPassword),
     AuthForm(bob, secret),
     AuthForm(<<" ">> \o bob \o <<" ">>, secret \o <<" ">>),
     AuthForm(admin, adminPassword),
     AuthForm(admin, secret)}

\* ------------------------------------------------------------------ seed
seed_initial_data ==
    [services |->
        {Service(1, "Corte clasico", "Corte tradicional", 30, 10, TRUE),
         Service(2, "Afeitado premium", "Afeitado con toalla caliente", 40, 15, TRUE),
         Service(3, "Masaje relajante", "Masaje de cuello y hombros", 20, 12, TRUE)},
     barbers |->
        {Barber(1, "Carlos", "Cortes modernos", TRUE),
         Barber(2, "Luis", "Barbas y afeitados", TRUE),
         Barber(3, "Ana", "Spa y masajes", TRUE)}]

admin_user == User(1, admin, generate_password_hash(adminPassword), "admin")

EmptySession == [user_id |-> NoUser, role |-> None]

\* A worker with no booking request in hand
Idle == [pc |-> "idle"]

Init ==
    /\ users = {admin_user}
    /\ clients = {}
    /\ services = seed_initial_data.services
    /\ barbers = seed_initial_data.barbers
    /\ appointments = {}
    /\ session = [s \in Sessions |-> EmptySession]
    /\ now = 0
    /\ inflight = [w \in Workers |-> Idle]

\* ------------------------------------------------------- authentication
\* register hashing the password as submitted, blanks around it included.
register_untrimmed(form) ==
    LET username == strip(form.username)
        password == strip(form.password)
    IN  IF username = <<>> \/ password = <<>>
        THEN [users |-> users, flash |-> "Todos los campos son obligatorios."]
        ELSE IF Len(username) < MinUsernameLen
        THEN [users |-> users, flash |-> "El usuario debe tener al menos 3 caracteres."]
        ELSE IF Len(password) < MinPasswordLen
        THEN [users |-> users, flash |-> "La contrasena debe tener al menos 6 caracteres."]
        ELSE IF first({u \in users : u.username = username}) # NoRow
        THEN [users |-> users, flash |-> "Ese usuario ya existe."]
        ELSE [users |-> users \cup
                 {User(NextId(users), username,
                       generate_password_hash(form.password), "cliente")},
              flash |-> "Registro exitoso."]

\* POST /register
register(form) ==
    LET username == strip(form.username)
        password == strip(form.password)
    IN  IF username = <<>> \/ password = <<>>
        THEN [users |-> users, flash |-> "Todos los campos son obligatorios."]
        ELSE IF Len(username) < MinUsernameLen
        THEN [users |-> users, flash |-> "El usuario debe tener al menos 3 caracteres."]
        ELSE IF Len(password) < MinPasswordLen
        THEN [users |-> users, flash |-> "La contrasena debe tener al menos 6 caracteres."]
        ELSE IF first({u \in users : u.username = username}) # NoRow
        THEN [users |-> users, flash |-> "Ese usuario ya existe."]
        ELSE [users |-> users \cup
                 {User(NextId(users), username,
                       generate_password_hash(password), "cliente")},
              flash |-> "Registro exitoso."]

\* login without the check of the password against the stored hash.
login_any_password(s, form) ==
    LET username == strip(form.username)
        password == strip(form.password)
        user == first({u \in users : u.username = username})
    IN  IF username = <<>> \/ password = <<>>
        THEN [session |-> session, flash |-> "Completa todos los campos."]
        ELSE IF user = NoRow
        THEN [session |-> session, flash |-> "Credenciales incorrectas."]
        ELSE [session |-> [session EXCEPT ![s] =
                              [user_id |-> user.id, role |-> user.role]],
              flash |-> "Bienvenido"]

\* POST /login from session s
login(s, form) ==
    LET username == strip(form.username)
        password == strip(form.password)
        user == first({u \in users : u.username = username})
    IN  IF username = <<>> \/ password = <<>>
        THEN [session |-> session, flash |-> "Completa todos los campos."]
        ELSE IF user = NoRow \/ ~check_password_hash(user.password, password)
        THEN [session |-> session, flash |-> "Credenciales incorrectas."]
        ELSE [session |-> [session EXCEPT ![s] =
                              [user_id |-> user.id, role |-> user.role]],
              flash |-> "Bienvenido"]

\* GET /logout from session s
logout(s) ==
    [session |-> [session EXCEPT ![s] = EmptySession],
     flash |-> "Sesion cerrada."]

Register ==
    \E form \in AuthForms :
        /\ users' = register(form).users
        /\ UNCHANGED <<clients, services, barbers, appointments, session, now, inflight>>

Login ==
    \E s \in Sessions, form \in AuthForms :
        /\ session' = login(s, form).session
        /\ UNCHANGED <<db, now, inflight>>

Logout ==
    \E s \in Sessions :
        /\ session' = logout(s).session
        /\ UNCHANGED <<db, now, inflight>>

\* -------------------------------------------------------------- booking
\* A submitted date field: empty, text that is no calendar date, or the date
\* of slot t.  A submitted time field: empty, text that is no time of day, or
\* the one time of day at which slots start.
NoDate == [text |-> "", slot |-> 0]
BadDate == [text |-> "2026-02-30", slot |-> 0]
DateOf(t) == [text |-> "%Y-%m-%d", slot |-> t]

\* datetime.strptime(f"{date_str} {time_str}", "%Y-%m-%d %H:%M"): the slot,
\* or ValueError.
ValueError == -1

strptime(date_str, time_str) ==
    IF date_str.text = "%Y-%m-%d" /\ time_str = "10:00"
    THEN date_str.slot
    ELSE ValueError

\* existing passing over the cancelled appointments.
existing_not_cancelled(barber_id, appointment_datetime) ==
    first({a \in appointments :
              /\ a.barber_id = barber_id
              /\ a.appointment_datetime = appointment_datetime
              /\ a.status # "cancelada"})

\* Appointment.query.filter_by(barber_id=..., appointment_datetime=...).first()
existing(barber_id, appointment_datetime) ==
    first({a \in appointments :
              /\ a.barber_id = barber_id
              /\ a.appointment_datetime = appointment_datetime})

\* datetime.now()
datetime_now == now

\* book_validate turning away a datetime equal to the current moment too.
book_validate_now_is_past(s, form) ==
    LET full_name == strip(form.full_name)
        phone == strip(form.phone)
        appointment_datetime == strptime(form.date, form.time)
    IN  IF session[s].user_id = NoUser
        THEN "Debes iniciar sesion para reservar una cita."
        ELSE IF \/ full_name = <<>> \/ phone = <<>>
                \/ form.service_id = 0 \/ form.barber_id = 0
                \/ form.date = NoDate \/ form.time = ""
        THEN "Por favor completa todos los campos obligatorios."
        ELSE IF get(services, form.service_id) = NoRow
                \/ get(barbers, form.barber_id) = NoRow
        THEN "Servicio o profesional no valido."
        ELSE IF appointment_datetime = ValueError
        THEN "Fecha u hora invalida."
        ELSE IF appointment_datetime <= datetime_now
        THEN "No puedes reservar una cita en el pasado."
        ELSE IF existing(form.barber_id, appointment_datetime) # NoRow
        THEN "Ese horario ya esta ocupado con ese profesional. Elige otra hora."
        ELSE "ok"

\* book_validate without the query for an appointment in the slot.
book_validate_no_slot_query(s, form) ==
    LET full_name == strip(form.full_name)
        phone == strip(form.phone)
        appointment_datetime == strptime(form.date, form.time)
    IN  IF session[s].user_id = NoUser
        THEN "Debes iniciar sesion para reservar una cita."
        ELSE IF \/ full_name = <<>> \/ phone = <<>>
                \/ form.service_id = 0 \/ form.barber_id = 0
                \/ form.date = NoDate \/ form.time = ""
        THEN "Por favor completa todos los campos obligatorios."
        ELSE IF get(services, form.service_id) = NoRow
                \/ get(barbers, form.barber_id) = NoRow
        THEN "Servicio o profesional no valido."
        ELSE IF appointment_datetime = ValueError
        THEN "Fecha u hora invalida."
        ELSE IF appointment_datetime < datetime_now
        THEN "No puedes reservar una cita en el pasado."
        ELSE "ok"

\* book_appointment, lines 118-175: the login check and the validations of a
\* POST /book from session s.  "ok" when the request passes every one of
\* them, else the message flashed.  A service_id or barber_id of 0 is an
\* empty field.
book_validate(s, form) ==
    LET full_name == strip(form.full_name)
        phone == strip(form.phone)
        appointment_datetime == strptime(form.date, form.time)
    IN  IF session[s].user_id = NoUser
        THEN "Debes iniciar sesion para reservar una cita."
        ELSE IF \/ full_name = <<>> \/ phone = <<>>
                \/ form.service_id = 0 \/ form.barber_id = 0
                \/ form.date = NoDate \/ form.time = ""
        THEN "Por favor completa todos los campos obligatorios."
        ELSE IF get(services, form.service_id) = NoRow
                \/ get(barbers, form.barber_id) = NoRow
        THEN "Servicio o profesional no valido."
        ELSE IF appointment_datetime = ValueError
        THEN "Fecha u hora invalida."
        ELSE IF appointment_datetime < datetime_now
        THEN "No puedes reservar una cita en el pasado."
        ELSE IF existing(form.barber_id, appointment_datetime) # NoRow
        THEN "Ese horario ya esta ocupado con ese profesional. Elige otra hora."
        ELSE "ok"

\* book_insert creating a Client at every booking.
book_insert_new_client(logged_user_id, form) ==
    LET client == Client(NextId(clients), logged_user_id,
                         strip(form.full_name), strip(form.phone),
                         strip(form.email))
        new_appointment ==
            Appointment(NextId(appointments),
                        strptime(form.date, form.time), "pendiente",
                        strip(form.notes), client.id,
                        form.service_id, form.barber_id)
    IN  [clients |-> clients \cup {client},
         appointments |-> appointments \cup {new_appointment},
         flash |-> "Tu cita ha sido registrada con exito."]

\* book_insert under a uniqueness constraint on (barber, datetime): the
\* insert of a second appointment in a slot fails.
book_insert_unique(logged_user_id, form) ==
    LET found == first({c \in clients : c.user_id = logged_user_id})
        client == IF found # NoRow THEN found
                  ELSE Client(NextId(clients), logged_user_id,
                              strip(form.full_name), strip(form.phone),
                              strip(form.email))
        new_appointment ==
            Appointment(NextId(appointments),
                        strptime(form.date, form.time), "pendiente",
                        strip(form.notes), client.id,
                        form.service_id, form.barber_id)
    IN  IF existing(form.barber_id, strptime(form.date, form.time)) # NoRow
        THEN [clients |-> clients, appointments |-> appointments, flash |-> "500"]
        ELSE [clients |-> clients \cup {client},
              appointments |-> appointments \cup {new_appointment},
              flash |-> "Tu cita ha sido registrada con exito."]

\* book_appointment, lines 180-209: find or create the Client of the logged
\* user, insert the Appointment, commit.
book_insert(logged_user_id, form) ==
    LET found == first({c \in clients : c.user_id = logged_user_id})
        client == IF found # NoRow THEN found
                  ELSE Client(NextId(clients), logged_user_id,
                              strip(form.full_name), strip(form.phone),
                              strip(form.email))
        new_appointment ==
            Appointment(NextId(appointments),
                        strptime(form.date, form.time), "pendiente",
                        strip(form.notes), client.id,
                        form.service_id, form.barber_id)
    IN  [clients |-> clients \cup {client},
         appointments |-> appointments \cup {new_appointment},
         flash |-> "Tu cita ha sido registrada con exito."]

\* POST /book from session s, run from start to end with no other request
\* in between.
book_appointment(s, form) ==
    IF book_validate(s, form) = "ok"
    THEN book_insert(session[s].user_id, form)
    ELSE [clients |-> clients, appointments |-> appointments,
          flash |-> book_validate(s, form)]

\* The forms submitted: a complete one for each of three slots (barber,
\* date), two of one date and two of one barber, and one of each way of
\* being incomplete or malformed.
BookSlots == {<<1, 1>>, <<2, 1>>, <<1, 2>>}

BookForm(full_name, service_id, barber_id, date, time) ==
    [full_name |-> full_name, phone |-> <<"5", "5", "5">>, email |-> <<>>,
     service_id |-> service_id, barber_id |-> barber_id,
     date |-> date, time |-> time, notes |-> <<" ">>]

BookForms ==
    {BookForm(<<"B", "o", "b">>, 1, slot[1], DateOf(slot[2]), "10:00") :
        slot \in BookSlots}
    \cup {BookForm(<<" ">>, 1, 1, DateOf(1), "10:00"),
          BookForm(<<"B", "o", "b">>, 0, 1, DateOf(1), "10:00"),
          BookForm(<<"B", "o", "b">>, 1, 1, NoDate, "10:00"),
          BookForm(<<"B", "o", "b">>, 1, 1, BadDate, "10:00"),
          BookForm(<<"B", "o", "b">>, 1, 1, DateOf(1), "25:00")}

Book ==
    \E s \in Sessions, form \in BookForms :
        /\ Cardinality(appointments) < MaxAppointments
        /\ clients' = book_appointment(s, form).clients
        /\ appointments' = book_appointment(s, form).appointments
        /\ UNCHANGED <<users, services, barbers, session, now, inflight>>

\* The same request when the server handles several at once: a worker runs
\* the validations, ending with the query for an appointment in the slot
\* (BookCheck), and later finds or creates the Client, inserts and commits
\* (BookCommit); other workers' steps come in between.  The worker keeps the
\* request's form and the user id of the session it came with.
Checked == {v \in Workers : inflight[v].pc = "checked"}

BookCheck(w) ==
    \E s \in Sessions, form \in BookForms :
        /\ inflight[w] = Idle
        /\ Cardinality(appointments) + Cardinality(Checked) < MaxAppointments
        /\ book_validate(s, form) = "ok"
        /\ inflight' = [inflight EXCEPT ![w] =
                            [pc |-> "checked",
                             logged_user_id |-> session[s].user_id,
                             form |-> form]]
        /\ UNCHANGED <<db, session, now>>

BookCommit(w) ==
    /\ inflight[w].pc = "checked"
    /\ clients' =
           book_insert(inflight[w].logged_user_id, inflight[w].form).clients
    /\ appointments' =
           book_insert(inflight[w].logged_user_id, inflight[w].form).appointments
    /\ inflight' = [inflight EXCEPT ![w] = Idle]
    /\ UNCHANGED <<users, services, barbers, session, now>>

\* ---------------------------------------------------------- self-service
\* cancel_user_appointment without the check that the appointment is the
\* client's own.
cancel_any_appointment(s, appointment_id) ==
    LET client == first({c \in clients : c.user_id = session[s].user_id})
        appointment == get(appointments, appointment_id)
    IN  IF session[s].user_id = NoUser
        THEN [appointments |-> appointments, flash |-> "Debes iniciar sesion."]
        ELSE IF client = NoRow
        THEN [appointments |-> appointments,
              flash |-> "No tienes permiso para cancelar esta cita."]
        ELSE IF appointment = NoRow
        THEN [appointments |-> appointments, flash |-> "404"]
        ELSE IF appointment.appointment_datetime < datetime_now
        THEN [appointments |-> appointments,
              flash |-> "No puedes cancelar una cita que ya paso."]
        ELSE [appointments |->
                 (appointments \ {appointment}) \cup
                 {[appointment EXCEPT !.status = "cancelada"]},
              flash |-> "Cita cancelada correctamente."]

\* GET /mis-citas/cancel/<appointment_id> from session s
cancel_user_appointment(s, appointment_id) ==
    LET client == first({c \in clients : c.user_id = session[s].user_id})
        appointment == get(appointments, appointment_id)
    IN  IF session[s].user_id = NoUser
        THEN [appointments |-> appointments, flash |-> "Debes iniciar sesion."]
        ELSE IF client = NoRow
        THEN [appointments |-> appointments,
              flash |-> "No tienes permiso para cancelar esta cita."]
        ELSE IF appointment = NoRow
        THEN [appointments |-> appointments, flash |-> "404"]
        ELSE IF appointment.client_id # client.id
        THEN [appointments |-> appointments,
              flash |-> "No puedes cancelar una cita que no es tuya."]
        ELSE IF appointment.appointment_datetime < datetime_now
        THEN [appointments |-> appointments,
              flash |-> "No puedes cancelar una cita que ya paso."]
        ELSE [appointments |->
                 (appointments \ {appointment}) \cup
                 {[appointment EXCEPT !.status = "cancelada"]},
              flash |-> "Cita cancelada correctamente."]

AppointmentIdInputs == 1..MaxAppointments

Cancel ==
    \E s \in Sessions, appointment_id \in AppointmentIdInputs :
        /\ appointments' = cancel_user_appointment(s, appointment_id).appointments
        /\ UNCHANGED <<users, clients, services, barbers, session, now, inflight>>

\* ------------------------------------------------- administration: citas
\* GET /admin/appointment/<appointment_id>/<new_status> from session s
update_appointment_status(s, appointment_id, new_status) ==
    LET appointment == get(appointments, appointment_id)
    IN  IF session[s].role # "admin"
        THEN [appointments |-> appointments,
              flash |-> "No tienes permiso para acceder aqui."]
        ELSE IF appointment = NoRow
        THEN [appointments |-> appointments, flash |-> "404"]
        ELSE [appointments |->
                 (appointments \ {appointment}) \cup
                 {[appointment EXCEPT !.status = new_status]},
              flash |-> "Estado de la cita actualizado."]

StatusInputs == {"pendiente", "cancelada"}

UpdateAppointmentStatus ==
    \E s \in Sessions, appointment_id \in AppointmentIdInputs,
       new_status \in StatusInputs :
        /\ appointments' =
               update_appointment_status(s, appointment_id, new_status).appointments
        /\ UNCHANGED <<users, clients, services, barbers, session, now, inflight>>

\* --------------------------------------------- administration: servicios
\* int(text) and float(text) of a form field: the number the text writes,
\* or ValueError.
int(text) ==
    CASE text = "45" -> 45
      [] text = "20" -> 20
      [] OTHER -> ValueError

float(text) ==
    CASE text = "45" -> 45
      [] text = "20" -> 20
      [] OTHER -> ValueError

\* POST /admin/services/create from session s.  A field that is no number
\* raises before anything is added: the request ends in an error page.
admin_service_create(s, form) ==
    IF session[s].role # "admin"
    THEN [services |-> services, flash |-> "No tienes permiso"]
    ELSE IF form.name = "" \/ form.duration = "" \/ form.price = ""
    THEN [services |-> services, flash |-> "Completa los campos obligatorios."]
    ELSE IF int(form.duration) = ValueError \/ float(form.price) = ValueError
    THEN [services |-> services, flash |-> "500"]
    ELSE [services |-> services \cup
             {Service(NextId(services), form.name, form.description,
                      int(form.duration), float(form.price), TRUE)},
          flash |-> "Servicio creado correctamente"]

\* POST /admin/services/edit/<service_id> from session s.  A field that is
\* no number raises before the commit, and the request's changes are
\* dropped with its database session.
admin_service_edit(s, service_id, form) ==
    LET service == get(services, service_id)
    IN  IF session[s].role # "admin"
        THEN [services |-> services, flash |-> "No tienes permiso"]
        ELSE IF service = NoRow
        THEN [services |-> services, flash |-> "404"]
        ELSE IF int(form.duration) = ValueError \/ float(form.price) = ValueError
        THEN [services |-> services, flash |-> "500"]
        ELSE [services |->
                 (services \ {service}) \cup
                 {Service(service.id, form.name, form.description,
                          int(form.duration), float(form.price),
                          service.is_active)},
              flash |-> "Servicio actualizado"]

\* GET /admin/services/toggle/<service_id> from session s
admin_service_toggle(s, service_id) ==
    LET service == get(services, service_id)
    IN  IF session[s].role # "admin"
        THEN [services |-> services, flash |-> "No tienes permiso"]
        ELSE IF service = NoRow
        THEN [services |-> services, flash |-> "404"]
        ELSE [services |->
                 (services \ {service}) \cup
                 {[service EXCEPT !.is_active = ~service.is_active]},
              flash |-> "Estado actualizado"]

\* admin_service_delete without the query for an appointment of the service.
admin_service_delete_unreferenced_or_not(s, service_id) ==
    LET service == get(services, service_id)
    IN  IF session[s].role # "admin"
        THEN [services |-> services, flash |-> "No tienes permiso"]
        ELSE IF service = NoRow
        THEN [services |-> services, flash |-> "404"]
        ELSE [services |-> services \ {service}, flash |-> "Servicio eliminado"]

\* GET /admin/services/delete/<service_id> from session s
admin_service_delete(s, service_id) ==
    LET service == get(services, service_id)
        has_appointments ==
            first({a \in appointments : a.service_id = service.id})
    IN  IF session[s].role # "admin"
        THEN [services |-> services, flash |-> "No tienes permiso"]
        ELSE IF service = NoRow
        THEN [services |-> services, flash |-> "404"]
        ELSE IF has_appointments # NoRow
        THEN [services |-> services,
              flash |-> "No puedes eliminar un servicio con citas registradas. Desactivalo."]
        ELSE [services |-> services \ {service}, flash |-> "Servicio eliminado"]

ServiceForm(name, duration, price) ==
    [name |-> name, description |-> "Corte y lavado",
     duration |-> duration, price |-> price]

ServiceForms ==
    {ServiceForm("Corte nuevo", "45", "20"), ServiceForm("", "45", "20"),
     ServiceForm("Corte nuevo", "abc", "20")}

\* The edit form arrives filled in: an empty name would be stored as it is.
ServiceEditForms == {form \in ServiceForms : form.name # ""}

\* The services and barbers the administrator's requests name.
CatalogIdInputs == {1}

\* The catalogue is kept at its seeded size or below: a record is created
\* in the place of a deleted one.
AdminServiceCreate ==
    \E s \in Sessions, form \in ServiceForms :
        /\ Cardinality(services) < SeedServices
        /\ services' = admin_service_create(s, form).services
        /\ UNCHANGED <<users, clients, barbers, appointments, session, now, inflight>>

AdminServiceEdit ==
    \E s \in Sessions, service_id \in CatalogIdInputs, form \in ServiceEditForms :
        /\ services' = admin_service_edit(s, service_id, form).services
        /\ UNCHANGED <<users, clients, barbers, appointments, session, now, inflight>>

AdminServiceToggle ==
    \E s \in Sessions, service_id \in CatalogIdInputs :
        /\ services' = admin_service_toggle(s, service_id).services
        /\ UNCHANGED <<users, clients, barbers, appointments, session, now, inflight>>

AdminServiceDelete ==
    \E s \in Sessions, service_id \in CatalogIdInputs :
        /\ services' = admin_service_delete(s, service_id).services
        /\ UNCHANGED <<users, clients, barbers, appointments, session, now, inflight>>

\* ---------------------------------------------- administration: barberos
\* POST /admin/barbers/add from session s
add_barber(s, form) ==
    IF session[s].role # "admin"
    THEN [barbers |-> barbers, flash |-> "No tienes permiso"]
    ELSE IF form.name = ""
    THEN [barbers |-> barbers, flash |-> "El nombre es obligatorio"]
    ELSE [barbers |-> barbers \cup
             {Barber(NextId(barbers), form.name, form.specialty, TRUE)},
          flash |-> "Barbero agregado"]

\* POST /admin/barbers/edit/<barber_id> from session s
edit_barber(s, barber_id, form) ==
    LET barber == get(barbers, barber_id)
    IN  IF session[s].role # "admin"
        THEN [barbers |-> barbers, flash |-> "No tienes permiso"]
        ELSE IF barber = NoRow
        THEN [barbers |-> barbers, flash |-> "404"]
        ELSE [barbers |->
                 (barbers \ {barber}) \cup
                 {Barber(barber.id, form.name, form.specialty, barber.is_active)},
              flash |-> "Barbero actualizado"]

\* toggle_barber without the check of the session's role.
toggle_barber_unguarded(s, barber_id) ==
    LET barber == get(barbers, barber_id)
    IN  IF barber = NoRow
        THEN [barbers |-> barbers, flash |-> "404"]
        ELSE [barbers |->
                 (barbers \ {barber}) \cup
                 {[barber EXCEPT !.is_active = ~barber.is_active]},
              flash |-> "Estado actualizado"]

\* GET /admin/barbers/toggle/<barber_id> from session s
toggle_barber(s, barber_id) ==
    LET barber == get(barbers, barber_id)
    IN  IF session[s].role # "admin"
        THEN [barbers |-> barbers, flash |-> "No tienes permiso"]
        ELSE IF barber = NoRow
        THEN [barbers |-> barbers, flash |-> "404"]
        ELSE [barbers |->
                 (barbers \ {barber}) \cup
                 {[barber EXCEPT !.is_active = ~barber.is_active]},
              flash |-> "Estado actualizado"]

\* delete_barber without the query for an appointment of the barber.
delete_barber_unreferenced_or_not(s, barber_id) ==
    LET barber == get(barbers, barber_id)
    IN  IF session[s].role # "admin"
        THEN [barbers |-> barbers, flash |-> "No tienes permiso"]
        ELSE IF barber = NoRow
        THEN [barbers |-> barbers, flash |-> "404"]
        ELSE [barbers |-> barbers \ {barber}, flash |-> "Barbero eliminado"]

\* GET /admin/barbers/delete/<barber_id> from session s
delete_barber(s, barber_id) ==
    LET barber == get(barbers, barber_id)
        has_appointments ==
            first({a \in appointments : a.barber_id = barber.id})
    IN  IF session[s].role # "admin"
        THEN [barbers |-> barbers, flash |-> "No tienes permiso"]
        ELSE IF barber = NoRow
        THEN [barbers |-> barbers, flash |-> "404"]
        ELSE IF has_appointments # NoRow
        THEN [barbers |-> barbers,
              flash |-> "No puedes eliminar un barbero con citas registradas."]
        ELSE [barbers |-> barbers \ {barber}, flash |-> "Barbero eliminado"]

BarberForms ==
    {[name |-> "Pedro", specialty |-> "Degradados"],
     [name |-> "", specialty |-> "Degradados"]}

BarberEditForms == {form \in BarberForms : form.name # ""}

AddBarber ==
    \E s \in Sessions, form \in BarberForms :
        /\ Cardinality(barbers) < SeedBarbers
        /\ barbers' = add_barber(s, form).barbers
        /\ UNCHANGED <<users, clients, services, appointments, session, now, inflight>>

EditBarber ==
    \E s \in Sessions, barber_id \in CatalogIdInputs, form \in BarberEditForms :
        /\ barbers' = edit_barber(s, barber_id, form).barbers
        /\ UNCHANGED <<users, clients, services, appointments, session, now, inflight>>

ToggleBarber ==
    \E s \in Sessions, barber_id \in CatalogIdInputs :
        /\ barbers' = toggle_barber(s, barber_id).barbers
        /\ UNCHANGED <<users, clients, services, appointments, session, now, inflight>>

DeleteBarber ==
    \E s \in Sessions, barber_id \in CatalogIdInputs :
        /\ barbers' = delete_barber(s, barber_id).barbers
        /\ UNCHANGED <<users, clients, services, appointments, session, now, inflight>>

\* The clock advances.
Tick ==
    /\ now < MaxNow
    /\ now' = now + 1
    /\ UNCHANGED <<db, session, inflight>>

Next ==
    \/ Register
    \/ Login
    \/ Logout
    \/ Book
    \/ Cancel
    \/ UpdateAppointmentStatus
    \/ AdminServiceCreate
    \/ AdminServiceEdit
    \/ AdminServiceToggle
    \/ AdminServiceDelete
    \/ AddBarber
    \/ EditBarber
    \/ ToggleBarber
    \/ DeleteBarber
    \/ Tick

Spec == Init /\ [][Next]_vars

\* Requests handled at the same time: the booking request is taken in its
\* two steps by each worker, every other request that reads or writes what
\* a booking reads or writes as a whole.
NextConc ==
    \/ Register
    \/ Login
    \/ Logout
    \/ \E w \in Workers : BookCheck(w)
    \/ \E w \in Workers : BookCommit(w)
    \/ Cancel
    \/ UpdateAppointmentStatus
    \/ AdminServiceDelete
    \/ DeleteBarber
    \/ Tick

SpecConc == Init /\ [][NextConc]_vars

\* ================================================================ claims
\* The appointments in the slot of barber b at datetime t.
InSlot(table, b, t) ==
    {a \in table : a.barber_id = b /\ a.appointment_datetime = t}

SlotConflict == "Ese horario ya esta ocupado con ese profesional. Elige otra hora."
Booked == "Tu cita ha sido registrada con exito."

\* C1: with requests served one after another, a POST /book for a barber
\* and datetime that an appointment already holds is rejected and creates
\* no Appointment (and no Client), and no two appointments share a
\* (barber_id, appointment_datetime) pair.
C1_SequentialBookingKeepsSlotsUnique ==
    /\ \A a1, a2 \in appointments :
           (/\ a1.barber_id = a2.barber_id
            /\ a1.appointment_datetime = a2.appointment_datetime) => a1 = a2
    /\ \A s \in Sessions, form \in BookForms :
           InSlot(appointments, form.barber_id, strptime(form.date, form.time)) # {}
               => /\ book_appointment(s, form).appointments = appointments
                  /\ book_appointment(s, form).clients = clients
                  /\ book_appointment(s, form).flash # Booked

\* A logged user submits a complete form for a slot that is not in the past
\* and that an appointment holds, and is turned away for that reason, while
\* a second appointment stands in another slot.
C1_Witness ==
    /\ Cardinality(appointments) = 2
    /\ \E s \in Sessions, form \in BookForms :
           book_appointment(s, form).flash = SlotConflict

\* C2: with requests served at the same time, a booking that passed the
\* query for an appointment in its slot inserts its appointment whatever
\* was committed since: the slot then holds one appointment more than
\* before, two when another request took it in between.
C2_CheckedBookingInsertsRegardless ==
    [][\A w \in Workers :
          (inflight[w].pc = "checked" /\ inflight'[w] = Idle) =>
              LET b == inflight[w].form.barber_id
                  t == strptime(inflight[w].form.date, inflight[w].form.time)
              IN  Cardinality(InSlot(appointments', b, t)) =
                      Cardinality(InSlot(appointments, b, t)) + 1]_vars

\* Two requests passed the query before either committed, both committed,
\* and two appointments hold one slot.
C2_Witness ==
    \E a1, a2 \in appointments :
        /\ a1.id # a2.id
        /\ a1.barber_id = a2.barber_id
        /\ a1.appointment_datetime = a2.appointment_datetime
        /\ \A w \in Workers : inflight[w] = Idle

\* The Client records of the user logged in session s.
ClientsOf(s) ==
    {c \in clients : session[s].user_id # NoUser /\ c.user_id = session[s].user_id}

\* C3: GET /mis-citas/cancel/{id} sets the status of appointment id to
\* 'cancelada', and changes nothing else, when the session user has a Client
\* record, the appointment is that client's and its datetime is not before
\* the current moment; in every other case no appointment changes.
C3_CancelOnlyOwnFutureAppointment ==
    \A s \in Sessions, appointment_id \in AppointmentIdInputs :
        LET after == cancel_user_appointment(s, appointment_id).appointments
            own == {a \in appointments :
                       /\ a.id = appointment_id
                       /\ \E c \in ClientsOf(s) : a.client_id = c.id
                       /\ a.appointment_datetime >= now}
        IN  IF own = {}
            THEN after = appointments
            ELSE after = {IF a \in own THEN [a EXCEPT !.status = "cancelada"] ELSE a :
                             a \in appointments}

\* The client of the session cancelled one of its appointments, and is now
\* turned away from another client's appointment and from an appointment of
\* its own that lies in the past.
C3_Witness ==
    /\ \E a \in appointments : a.status = "cancelada"
    /\ \E s \in Sessions, id1, id2 \in AppointmentIdInputs :
           /\ cancel_user_appointment(s, id1).flash =
                  "No puedes cancelar una cita que no es tuya."
           /\ cancel_user_appointment(s, id2).flash =
                  "No puedes cancelar una cita que ya paso."

\* C4: for an admin session, the delete of a Service or Barber that an
\* Appointment of any status references leaves the table as it is, and the
\* delete of one that no Appointment references removes that record and no
\* other; and whenever a Service or Barber leaves its table, no Appointment
\* referenced it, no other record left with it, and every other table is
\* unchanged.
C4_DeleteOnlyUnreferenced ==
    /\ [](\A s \in Sessions :
             session[s].role = "admin" =>
                 /\ \A service \in services :
                        admin_service_delete(s, service.id).services =
                            IF \E a \in appointments : a.service_id = service.id
                            THEN services
                            ELSE services \ {service}
                 /\ \A barber \in barbers :
                        delete_barber(s, barber.id).barbers =
                            IF \E a \in appointments : a.barber_id = barber.id
                            THEN barbers
                            ELSE barbers \ {barber})
    /\ [][/\ \A service \in services :
                (\A kept \in services' : kept.id # service.id) =>
                    /\ \A a \in appointments : a.service_id # service.id
                    /\ services' = services \ {service}
                    /\ UNCHANGED <<users, clients, barbers, appointments>>
          /\ \A barber \in barbers :
                (\A kept \in barbers' : kept.id # barber.id) =>
                    /\ \A a \in appointments : a.barber_id # barber.id
                    /\ barbers' = barbers \ {barber}
                    /\ UNCHANGED <<users, clients, services, appointments>>]_vars

\* The administrator deleted barber 1, which no appointment referenced, and
\* is refused the delete of a barber that a cancelled appointment references.
C4_Witness ==
    /\ get(barbers, 1) = NoRow
    /\ \E s \in Sessions, a \in appointments :
           /\ a.status = "cancelada"
           /\ delete_barber(s, a.barber_id).flash =
                  "No puedes eliminar un barbero con citas registradas."

\* C5: a POST /book whose datetime is before the current moment creates
\* neither an Appointment nor a Client; one whose datetime is the current
\* moment, and that is otherwise acceptable, is booked; and every
\* Appointment enters the table with a datetime at or after the clock.
C5_NoBookingInThePast ==
    /\ [](\A s \in Sessions, form \in BookForms :
             LET t == strptime(form.date, form.time)
             IN  /\ (t # ValueError /\ t < now) =>
                        /\ book_appointment(s, form).appointments = appointments
                        /\ book_appointment(s, form).clients = clients
                        /\ book_appointment(s, form).flash # Booked
                 /\ (/\ t = now
                     /\ session[s].user_id # NoUser
                     /\ strip(form.full_name) # <<>>
                     /\ form.service_id \in {r.id : r \in services}
                     /\ form.barber_id \in {r.id : r \in barbers}
                     /\ InSlot(appointments, form.barber_id, t) = {}) =>
                        /\ book_appointment(s, form).flash = Booked
                        /\ InSlot(book_appointment(s, form).appointments,
                                  form.barber_id, t) # {})
    /\ [][\A a \in appointments' :
             (\A old \in appointments : old.id # a.id) =>
                 a.appointment_datetime >= now]_vars

\* An appointment stands at the current moment, and a logged user's complete
\* form for an earlier slot is turned away as lying in the past.
C5_Witness ==
    /\ \E a \in appointments : a.appointment_datetime = now
    /\ \E s \in Sessions, form \in BookForms :
           /\ strptime(form.date, form.time) < now
           /\ book_appointment(s, form).flash =
                  "No puedes reservar una cita en el pasado."

Ids(table) == {r.id : r \in table}

\* C6: a POST /register whose trimmed username has at least 3 characters
\* and is not stored and whose trimmed password has at least 6 stores one
\* new User of role 'cliente'; a POST /login with the same form succeeds
\* right after it, and in every later state, since a login with the
\* username and password of a stored User sets the session's user id and
\* role to that User's and no User is ever removed or changed.
C6_RegisteredUserCanLogin ==
    /\ [](\A form \in AuthForms :
             LET username == strip(form.username)
                 password == strip(form.password)
                 added == register(form).users \ users
             IN  (/\ Len(username) >= MinUsernameLen
                  /\ Len(password) >= MinPasswordLen
                  /\ \A u \in users : u.username # username) =>
                     /\ register(form).flash = "Registro exitoso."
                     /\ users \subseteq register(form).users
                     /\ Cardinality(added) = 1
                     /\ \A u \in added :
                            /\ u.username = username
                            /\ u.role = "cliente"
                            /\ u.id \notin Ids(users)
                            /\ check_password_hash(u.password, password))
    /\ [](\A s \in Sessions, form \in AuthForms, u \in users :
             (/\ u.username = strip(form.username)
              /\ check_password_hash(u.password, strip(form.password))) =>
                 login(s, form).session[s] = [user_id |-> u.id, role |-> u.role])
    /\ [][/\ users \subseteq users'
          /\ \A s \in Sessions, form \in AuthForms, u \in users' \ users :
                 (/\ users' = register(form).users
                  /\ u.username = strip(form.username)) =>
                     (login(s, form).session[s])' =
                         [user_id |-> u.id, role |-> "cliente"]]_vars

\* bob registered with blanks around the username and password or without,
\* other requests followed, and the session is bob's.
C6_Witness ==
    \E s \in Sessions, u \in users, a \in appointments :
        /\ u.username = bob
        /\ u.role = "cliente"
        /\ session[s] = [user_id |-> u.id, role |-> "cliente"]

\* C7: a POST /login whose trimmed username is no stored User's, or whose
\* trimmed password is not the one that User's stored hash was made from,
\* fails and leaves the session's user id and role as they were.
C7_FailedLoginKeepsSession ==
    \A s \in Sessions, form \in AuthForms :
        (\A u \in users :
            \/ u.username # strip(form.username)
            \/ u.password # generate_password_hash(strip(form.password))) =>
                /\ login(s, form).session = session
                /\ login(s, form).flash # "Bienvenido"

\* In a session that a user holds, a login with a registered client's
\* username and a wrong password and a login with a username that is not
\* stored are both turned away.
C7_Witness ==
    \E s \in Sessions, f1, f2 \in AuthForms :
        /\ session[s].user_id # NoUser
        /\ \E u \in users : u.role = "cliente" /\ u.username = strip(f1.username)
        /\ \A u \in users : u.username # strip(f2.username)
        /\ login(s, f1).flash = "Credenciales incorrectas."
        /\ login(s, f2).flash = "Credenciales incorrectas."

\* C8: from a session whose role is not 'admin', every admin route leaves
\* its table as it is, whatever the id, status or form; and in a step taken
\* while no session is an admin's, no Service or Barber changes and an
\* Appointment changes at most by its status becoming 'cancelada'.
C8_AdminRoutesNeedAdminRole ==
    /\ [](\A s \in Sessions :
             session[s].role # "admin" =>
                 /\ \A id \in AppointmentIdInputs \cup Ids(appointments),
                       new_status \in StatusInputs :
                        update_appointment_status(s, id, new_status).appointments
                            = appointments
                 /\ \A form \in ServiceForms :
                        admin_service_create(s, form).services = services
                 /\ \A id \in CatalogIdInputs \cup Ids(services) :
                        /\ \A form \in ServiceForms :
                               admin_service_edit(s, id, form).services = services
                        /\ admin_service_toggle(s, id).services = services
                        /\ admin_service_delete(s, id).services = services
                 /\ \A form \in BarberForms :
                        add_barber(s, form).barbers = barbers
                 /\ \A id \in CatalogIdInputs \cup Ids(barbers) :
                        /\ \A form \in BarberForms :
                               edit_barber(s, id, form).barbers = barbers
                        /\ toggle_barber(s, id).barbers = barbers
                        /\ delete_barber(s, id).barbers = barbers)
    /\ [][(\A s \in Sessions : session[s].role # "admin") =>
             /\ services' = services
             /\ barbers' = barbers
             /\ \A a \in appointments :
                    \/ a \in appointments'
                    \/ [a EXCEPT !.status = "cancelada"] \in appointments']_vars

\* A registered client is logged in, holds an appointment, and is refused
\* the admin route that would change its status.
C8_Witness ==
    \E s \in Sessions, a \in appointments :
        /\ session[s].role = "cliente"
        /\ \E c \in ClientsOf(s) : a.client_id = c.id
        /\ update_appointment_status(s, a.id, "cancelada").flash =
               "No tienes permiso para acceder aqui."

\* C9: with requests served one after another there is at most one Client
\* per User; a booking by a user who has a Client creates none; and a
\* Client enters the table only together with an appointment of its own,
\* for the user of the session, when that user had no Client.
C9_OneClientPerUser ==
    /\ [](/\ \A c1, c2 \in clients : c1.user_id = c2.user_id => c1 = c2
          /\ \A s \in Sessions, form \in BookForms :
                 ClientsOf(s) # {} => book_appointment(s, form).clients = clients)
    /\ [][/\ clients \subseteq clients'
          /\ \A c \in clients' \ clients :
                 /\ \E s \in Sessions : c.user_id = session[s].user_id
                 /\ \A old \in clients : old.user_id # c.user_id
                 /\ \E a \in appointments' \ appointments : a.client_id = c.id]_vars

\* A user has booked twice: one Client, and two appointments of it.
C9_Witness ==
    /\ Cardinality(clients) = 1
    /\ \E a1, a2 \in appointments : a1.id # a2.id /\ a1.client_id = a2.client_id

\* C10: while an appointment of status 'cancelada' stands in a slot, no POST
\* /book for that barber and datetime books, and one that passes the
\* validations before the slot query is turned away as a slot conflict; and
\* an appointment never leaves the table or its slot.
C10_CancelledSlotStaysTaken ==
    /\ [](\A a \in appointments, s \in Sessions, form \in BookForms :
             (/\ a.status = "cancelada"
              /\ form.barber_id = a.barber_id
              /\ strptime(form.date, form.time) = a.appointment_datetime) =>
                 /\ book_appointment(s, form).appointments = appointments
                 /\ book_appointment(s, form).flash # Booked
                 /\ (/\ session[s].user_id # NoUser
                     /\ strip(form.full_name) # <<>>
                     /\ form.service_id \in Ids(services)
                     /\ form.barber_id \in Ids(barbers)
                     /\ a.appointment_datetime >= now) =>
                        book_appointment(s, form).flash = SlotConflict)
    /\ [][\A a \in appointments :
             \E b \in appointments' :
                 /\ b.id = a.id
                 /\ b.barber_id = a.barber_id
                 /\ b.appointment_datetime = a.appointment_datetime]_vars

\* A cancelled appointment stands in a slot that is not in the past, and a
\* logged user's complete form for the slot is turned away as a conflict.
C10_Witness ==
    \E a \in appointments, s \in Sessions, form \in BookForms :
        /\ a.status = "cancelada"
        /\ a.appointment_datetime >= now
        /\ form.barber_id = a.barber_id
        /\ strptime(form.date, form.time) = a.appointment_datetime
        /\ book_appointment(s, form).flash = SlotConflict

\* C11: when requests run one after another, every appointment's service,
\* barber and client are rows of their tables; a POST /book naming a service
\* or a barber that is not in its table inserts nothing, and the
\* appointments a POST /book leaves behind all name rows that are there.
C11_AppointmentsReferenceExistingRows ==
    /\ \A a \in appointments :
           /\ a.service_id \in Ids(services)
           /\ a.barber_id \in Ids(barbers)
           /\ a.client_id \in Ids(clients)
    /\ \A s \in Sessions, form \in BookForms :
           /\ (form.service_id \notin Ids(services)
                   \/ form.barber_id \notin Ids(barbers)) =>
                  /\ book_appointment(s, form).appointments = appointments
                  /\ book_appointment(s, form).clients = clients
           /\ \A a \in book_appointment(s, form).appointments :
                  /\ a.service_id \in Ids(services)
                  /\ a.barber_id \in Ids(barbers)
                  /\ a.client_id \in Ids(book_appointment(s, form).clients)

\* A seeded barber has been deleted and an appointment stands with another
\* barber; the administrator's request to delete the appointment's service
\* is refused, and a logged user's complete form for the deleted barber
\* books nothing.
C11_Witness ==
    \E a \in appointments, s \in Sessions, form \in BookForms :
        /\ Cardinality(barbers) < SeedBarbers
        /\ a.barber_id \in Ids(barbers)
        /\ session[s].role = "admin"
        /\ get(services, a.service_id) # NoRow
        /\ a.service_id \in CatalogIdInputs
        /\ admin_service_delete(s, a.service_id).services = services
        /\ form.barber_id \notin Ids(barbers)
        /\ form.service_id \in Ids(services)
        /\ strip(form.full_name) # <<>>
        /\ strptime(form.date, form.time) >= now
        /\ book_appointment(s, form).appointments = appointments

====
